---- MODULE Spec2Model ----
(***************************************************************************)
(* Model of the multicurrency module: the Currency conversion methods      *)
(* (models.py), the views that mutate the registry, the rate history and   *)
(* the settings (views.py) and the assistant tools (ai_tools.py).          *)
(*                                                                         *)
(* A Decimal is a record [c |-> coefficient, s |-> fractional digits], its *)
(* value is c / 10^s.  Exchange rates are stored with 6 fractional digits  *)
(* (DecimalField(decimal_places=6)) and are kept as the integer number of  *)
(* millionths.                                                             *)
(***************************************************************************)
EXTENDS Integers, Sequences, FiniteSets, TLC

VARIABLES
    calc,        \* a currency, an amount and the conversions applied to it
    currencies,  \* table multicurrency_currency of the hub: pk -> row
    nextPk,      \* the next primary key of a Currency
    history,     \* table multicurrency_rate_history, in insertion order
    nextHid,     \* the next primary key of an ExchangeRateHistory
    settings,    \* the CurrencySettings row of the hub
    now,         \* the clock read by timezone.now()
    resp,        \* the response of the last request
    run,         \* the update_rates requests in progress: id -> frame
    conv,        \* the response of the last api_convert request
    payments,    \* table multicurrency_payment, in insertion order
    listing,     \* the entries the last history page was given
    answer       \* what the last currency listing or assistant tool returned

\* ------------------------------------------------------------------------
\* Bounds of the model
\* ------------------------------------------------------------------------

\* most rows of the payment table
MaxPayments == 2

\* largest coefficient of an input amount
MaxAmount == 30

\* number of Currency rows the hub can hold
MaxCurrencies == 2

\* last reading of the clock
MaxClock == 5

\* ------------------------------------------------------------------------
\* Program constants
\* ------------------------------------------------------------------------

\* fractional digits of Currency.exchange_rate
RateScale == 6

\* rows of a page of the history, qs[:100]
HistoryPageSize == 100

\* fractional digits of an amount in the base currency (Decimal('0.01'))
BaseScale == 2

\* ------------------------------------------------------------------------
\* Decimal arithmetic
\* ------------------------------------------------------------------------

Abs(n) == IF n < 0 THEN -n ELSE n

Sgn(n) == IF n < 0 THEN -1 ELSE IF n > 0 THEN 1 ELSE 0

RECURSIVE Pow10(_)
Pow10(n) == IF n = 0 THEN 1 ELSE 10 * Pow10(n - 1)

Dec(c, s) == [c |-> c, s |-> s]

\* decimal.ROUND_HALF_UP taken for floor(x + 1/2): ties toward +infinity
RoundHalfCeiling(n, d) == (2 * n + d) \div (2 * d)

\* decimal.ROUND_HALF_EVEN, the rounding of the default context
RoundHalfEven(n, d) ==
    LET q == Abs(n) \div d
        r == Abs(n) % d
        up == \/ 2 * r > d
              \/ 2 * r = d /\ q % 2 = 1
    IN  Sgn(n) * (q + IF up THEN 1 ELSE 0)

\* decimal.ROUND_HALF_UP: n / d to the nearest integer, ties away from zero
RoundHalfUp(n, d) ==
    LET q == Abs(n) \div d
        r == Abs(n) % d
    IN  Sgn(n) * (q + IF 2 * r >= d THEN 1 ELSE 0)

\* Decimal.quantize(Decimal(10) ** -places, rounding=ROUND_HALF_UP)
Quantize(x, places) ==
    IF x.s <= places
    THEN Dec(x.c * Pow10(places - x.s), places)
    ELSE Dec(RoundHalfUp(x.c, Pow10(x.s - places)), places)

\* digit-by-digit division: k more digits of the quotient q with remainder r
RECURSIVE LongDiv(_, _, _, _)
LongDiv(q, r, d, k) ==
    IF k = 0 THEN <<q, r>>
    ELSE LongDiv(q * 10 + ((r * 10) \div d), (r * 10) % d, d, k - 1)

\* (x / y).quantize(Decimal(10) ** -places, rounding=mode).  The quotient
\* the decimal context keeps has 28 significant digits, far more than the
\* operands of the model need, so the quantize rounds the exact quotient.
DivQuantize(x, y, places, mode) ==
    LET shift == y.s + places - x.s
        d == IF shift >= 0 THEN Abs(y.c) ELSE Abs(y.c) * Pow10(-shift)
        k == IF shift >= 0 THEN shift ELSE 0
        a == Abs(x.c)
        qr == LongDiv(a \div d, a % d, d, k)
        up == IF mode = "ROUND_HALF_UP"
              THEN 2 * qr[2] >= d
              ELSE \/ 2 * qr[2] > d
                   \/ 2 * qr[2] = d /\ qr[1] % 2 = 1
    IN  Dec(Sgn(x.c) * Sgn(y.c) * (qr[1] + IF up THEN 1 ELSE 0), places)

\* ------------------------------------------------------------------------
\* Currency.convert_from_base / Currency.convert_to_base
\* ------------------------------------------------------------------------

convert_from_base(cur, amount) ==
    IF cur.exchange_rate = 0 THEN Dec(0, 0)
    ELSE Quantize(Dec(amount.c * cur.exchange_rate, amount.s + RateScale),
                  cur.decimal_places)

\* a conversion that multiplies where it has to divide
convert_to_base_mul(cur, amount) ==
    IF cur.exchange_rate = 0 THEN Dec(0, 0)
    ELSE Quantize(Dec(amount.c * cur.exchange_rate, amount.s + RateScale),
                  BaseScale)

\* the zero-rate fallback of ConvertCurrency.execute: the amount passes through
convert_to_base_passthrough(cur, amount) ==
    IF cur.exchange_rate = 0 THEN amount
    ELSE DivQuantize(amount, Dec(cur.exchange_rate, RateScale), BaseScale,
                     "ROUND_HALF_UP")

convert_to_base(cur, amount) ==
    IF cur.exchange_rate = 0 THEN Dec(0, 0)
    ELSE DivQuantize(amount, Dec(cur.exchange_rate, RateScale), BaseScale,
                     "ROUND_HALF_UP")

\* ------------------------------------------------------------------------
\* Inputs
\* ------------------------------------------------------------------------

\* exchange rates in millionths: 0, 0.25, 0.4, 1, 1.085, 2.5
Rates == {0, 250000, 400000, 1000000, 1085000, 2500000}

DecimalPlaces == {0, 1, 2, 3}

AmountScales == {2, 3}

Amounts == {Dec(c, s) : c \in (-MaxAmount)..MaxAmount, s \in AmountScales}

\* ------------------------------------------------------------------------
\* Conversions applied to an amount: the calls of the model tests
\* (c.convert_from_base(x), c.convert_to_base(x)) and their composition
\* ------------------------------------------------------------------------

CalcInit ==
    calc \in [cur : [exchange_rate : Rates, decimal_places : DecimalPlaces],
              x0 : Amounts, arg : {Dec(0, 0)}, out : {Dec(0, 0)},
              ops : {<<>>}]

CalcIdle ==
    calc = [cur |-> [exchange_rate |-> 1000000, decimal_places |-> 2],
            x0 |-> Dec(0, 2), arg |-> Dec(0, 0), out |-> Dec(0, 0),
            ops |-> <<>>]

CalcArg == IF calc.ops = <<>> THEN calc.x0 ELSE calc.out

CallConvertFromBase ==
    /\ Len(calc.ops) < 2
    /\ calc' = [calc EXCEPT !.arg = CalcArg,
                            !.out = convert_from_base(calc.cur, CalcArg),
                            !.ops = Append(@, "from_base")]

CallConvertToBase ==
    /\ Len(calc.ops) < 2
    /\ calc' = [calc EXCEPT !.arg = CalcArg,
                            !.out = convert_to_base(calc.cur, CalcArg),
                            !.ops = Append(@, "to_base")]


\* ------------------------------------------------------------------------
\* State of the hub
\* ------------------------------------------------------------------------

vars ==
    <<calc, currencies, nextPk, history, nextHid, settings, now, resp, run,
      conv, payments, listing, answer>>

dbVars == <<currencies, nextPk, history, nextHid, settings, now, payments>>

\* currency codes as they are typed, and str.upper() on them
CodeInputs == {"EUR", "USD", "usd", "GBP"}

Upper(code) ==
    CASE code = "usd" -> "USD"
      [] code = "gbp" -> "GBP"
      [] code = "eur" -> "EUR"
      [] OTHER -> code

\* field defaults of CurrencySettings; created is FALSE until the row exists
DefaultSettings ==
    [created |-> FALSE, base_currency |-> "EUR", auto_update_rates |-> FALSE,
     update_frequency |-> "daily", rate_source |-> "manual", api_key |-> ""]

\* a get_settings that creates a row on every call
get_settings_fresh == [DefaultSettings EXCEPT !.created = TRUE]

\* CurrencySettings.get_settings: get_or_create of the hub's row
get_settings == [settings EXCEPT !.created = TRUE]

\* the lookup of a handler that finds the soft-deleted rows too
FoundDeletedToo(pk) == pk \in DOMAIN currencies

\* Currency.objects.filter(pk=pk, hub_id=hub, is_deleted=False).first()
Found(pk) == pk \in DOMAIN currencies /\ ~currencies[pk].is_deleted

\* a table without the unique constraint
CodeTakenNever(code, except) == FALSE

\* unique_together (hub_id, code): the rows another row's code collides with
CodeTaken(code, except) ==
    \E p \in DOMAIN currencies \ except : currencies[p].code = code

\* a row of ExchangeRateHistory; recorded_at is auto_now_add
HistoryEntry(pk, rate, source, at) ==
    [id |-> nextHid, currency |-> pk, rate |-> rate, source |-> source,
     recorded_at |-> at]

\* what a handler answers: the HTTP status, the "ok" member of its JSON (FALSE
\* when it raises or renders an error) and the row it is about
Response(op, status, ok, pk) ==
    [op |-> op, status |-> status, ok |-> ok, pk |-> pk]

\* values a CurrencyForm can submit; valid is form.is_valid()
FormRates == {1085000, 2500000}

FormDecimalPlaces == {2}

\* decimal_places argument of the add_currency tool (2 when it is left out)
ToolDecimalPlaces == {0, 2}

SortOrders == {0, 1}

ValidForms ==
    [valid : {TRUE}, code : CodeInputs, decimal_places : FormDecimalPlaces,
     exchange_rate : FormRates, is_active : BOOLEAN, sort_order : SortOrders]

\* a form that does not validate (a missing name, a malformed rate)
InvalidForm ==
    [valid |-> FALSE, code |-> "", decimal_places |-> 2, exchange_rate |-> 0,
     is_active |-> FALSE, sort_order |-> 0]

Forms == ValidForms \cup {InvalidForm}

\* the JSON of api_convert: rate is the pair of rates whose quotient the
\* response carries
Conversion(status, error, from_code, to_code, amount, result, num, den) ==
    [status |-> status, error |-> error, from |-> from_code, to |-> to_code,
     amount |-> amount, result |-> result, rate |-> [num |-> num, den |-> den]]

NoConversion == Conversion(0, "", "", "", Dec(0, 0), Dec(0, 0), 0, 1)

\* what a currency listing or an assistant tool returns: the rows of a
\* listing, the converted amount of a conversion, or the error it raised
NoAnswer ==
    [op |-> "none", ok |-> FALSE, error |-> "", from |-> "", to |-> "",
     amount |-> Dec(0, 0), value |-> Dec(0, 0), active_only |-> FALSE,
     rows |-> << >>]

\* the frame of an update_rates request: its locals, its response (status,
\* error, updated, warnings) and a record of what it wrote (saved, logged),
\* of whether it called the provider (fetched), of whether the provider
\* answered with a table (loaded) and of the currencies its query returned
\* (queried)
IdleRun ==
    [pc |-> "idle", source |-> "", base |-> "", table |-> << >>,
     todo |-> << >>, pk |-> 0, new_rate |-> 0, updated |-> 0,
     warnings |-> << >>, saved |-> << >>, logged |-> {}, fetched |-> FALSE,
     loaded |-> FALSE, queried |-> << >>, status |-> 0, error |-> ""]

Init ==
    /\ CalcIdle
    /\ currencies = << >>
    /\ nextPk = 1
    /\ history = << >>
    /\ nextHid = 1
    /\ settings = DefaultSettings
    /\ now = 1
    /\ resp = Response("none", 0, FALSE, 0)
    /\ run = [r \in {1} |-> IdleRun]
    /\ conv = NoConversion
    /\ payments = << >>
    /\ listing = [filter |-> "", entries |-> << >>]
    /\ answer = NoAnswer

\* f with the row pk set to row, pk new or not
Put(f, pk, row) ==
    [p \in DOMAIN f \cup {pk} |-> IF p = pk THEN row ELSE f[p]]

\* ------------------------------------------------------------------------
\* views.currency_create (POST)
\* ------------------------------------------------------------------------

currency_create(form) ==
    /\ nextPk <= MaxCurrencies
    /\ now + 1 <= MaxClock
    /\ UNCHANGED <<calc, run, conv, settings, payments, listing, answer>>
    /\ IF ~form.valid
       THEN /\ resp' = Response("currency_create", 400, FALSE, 0)
            /\ UNCHANGED <<currencies, nextPk, history, nextHid, now>>
       ELSE LET code == Upper(form.code)
                row == [code |-> code,
                        decimal_places |-> form.decimal_places,
                        exchange_rate |-> form.exchange_rate,
                        is_active |-> form.is_active,
                        is_deleted |-> FALSE,
                        last_updated |-> now,
                        sort_order |-> form.sort_order]
            IN  IF CodeTaken(code, {})
                THEN \* currency.save() raises IntegrityError
                     /\ resp' = Response("currency_create", 500, FALSE, 0)
                     /\ now' = now + 1
                     /\ UNCHANGED <<currencies, nextPk, history, nextHid>>
                ELSE /\ currencies' = Put(currencies, nextPk, row)
                     /\ nextPk' = nextPk + 1
                     /\ history' = Append(history,
                            HistoryEntry(nextPk, row.exchange_rate, "manual",
                                         now + 1))
                     /\ nextHid' = nextHid + 1
                     /\ now' = now + 2
                     /\ resp' = Response("currency_create", 200, TRUE, nextPk)

\* ------------------------------------------------------------------------
\* ai_tools.AddCurrency.execute
\* ------------------------------------------------------------------------

AddCurrency(code_arg, rate_arg, dp_arg) ==
    /\ nextPk <= MaxCurrencies
    /\ UNCHANGED <<calc, run, conv, settings, history, nextHid, now, payments,
                 listing, answer>>
    /\ LET code == Upper(code_arg)
           row == [code |-> code,
                   decimal_places |-> dp_arg,
                   exchange_rate |-> rate_arg,
                   is_active |-> TRUE,
                   is_deleted |-> FALSE,
                   last_updated |-> 0,
                   sort_order |-> 0]
       IN  IF CodeTaken(code, {})
           THEN \* Currency.objects.create raises IntegrityError
                /\ resp' = Response("add_currency", 500, FALSE, 0)
                /\ UNCHANGED <<currencies, nextPk>>
           ELSE /\ currencies' = Put(currencies, nextPk, row)
                /\ nextPk' = nextPk + 1
                /\ resp' = Response("add_currency", 200, TRUE, nextPk)

\* ------------------------------------------------------------------------
\* views.currency_edit (POST)
\* ------------------------------------------------------------------------

\* an edit that records every submitted rate, changed or not
RateChangedAlways(old_rate, new_rate) == TRUE

\* if old_rate != new_rate
RateChanged(old_rate, new_rate) == old_rate # new_rate

currency_edit(pk, form) ==
    /\ now + 1 <= MaxClock
    /\ UNCHANGED <<calc, run, conv, settings, nextPk, payments, listing,
                   answer>>
    /\ IF ~Found(pk)
       THEN \* return {'error': _('Currency not found')}, rendered as a page
            /\ resp' = Response("currency_edit", 200, FALSE, pk)
            /\ UNCHANGED <<currencies, history, nextHid, now>>
       ELSE IF ~form.valid
       THEN /\ resp' = Response("currency_edit", 400, FALSE, pk)
            /\ UNCHANGED <<currencies, history, nextHid, now>>
       ELSE LET old_rate == currencies[pk].exchange_rate
                new_rate == form.exchange_rate
                changed == RateChanged(old_rate, new_rate)
                row == [currencies[pk] EXCEPT
                          !.code = Upper(form.code),
                          !.decimal_places = form.decimal_places,
                          !.exchange_rate = new_rate,
                          !.is_active = form.is_active,
                          !.sort_order = form.sort_order,
                          !.last_updated = IF changed THEN now ELSE @]
            IN  /\ IF changed
                   THEN /\ history' = Append(history,
                               HistoryEntry(pk, new_rate, "manual", now + 1))
                        /\ nextHid' = nextHid + 1
                        /\ now' = now + 2
                   ELSE UNCHANGED <<history, nextHid, now>>
                /\ IF CodeTaken(row.code, {pk})
                   THEN \* currency.save() raises IntegrityError
                        /\ resp' = Response("currency_edit", 500, FALSE, pk)
                        /\ UNCHANGED currencies
                   ELSE /\ currencies' = Put(currencies, pk, row)
                        /\ resp' = Response("currency_edit", 200, TRUE, pk)

\* ------------------------------------------------------------------------
\* views.currency_toggle
\* ------------------------------------------------------------------------

currency_toggle(pk) ==
    /\ UNCHANGED <<calc, run, conv, nextPk, history, nextHid, now, payments,
                 listing, answer>>
    /\ IF ~Found(pk)
       THEN /\ resp' = Response("currency_toggle", 404, FALSE, pk)
            /\ UNCHANGED <<currencies, settings>>
       ELSE /\ currencies' = [currencies EXCEPT ![pk].is_active = ~@]
            /\ settings' = get_settings
            /\ resp' = Response("currency_toggle", 200, TRUE, pk)

\* ------------------------------------------------------------------------
\* views.update_rates, one action for each stretch between two accesses to
\* the database or the provider
\* ------------------------------------------------------------------------

Codes == {"EUR", "GBP", "USD"}

\* position of a code in the collation of the database
CodeRank(code) ==
    CASE code = "EUR" -> 1
      [] code = "GBP" -> 2
      [] code = "USD" -> 3
      [] OTHER -> 0

\* Currency.Meta.ordering = ['sort_order', 'code']
Before(a, b) ==
    \/ a.sort_order < b.sort_order
    \/ a.sort_order = b.sort_order /\ CodeRank(a.code) < CodeRank(b.code)

RECURSIVE Ordered(_)
Ordered(S) ==
    IF S = {} THEN << >>
    ELSE LET first == CHOOSE p \in S :
                          \A q \in S \ {p} : Before(currencies[p], currencies[q])
         IN  <<[pk |-> first, code |-> currencies[first].code]>>
                 \o Ordered(S \ {first})

\* a query without its filter: every row of the hub
AllCurrencies == Ordered(DOMAIN currencies)

\* Currency.objects.filter(hub_id=hub, is_deleted=False, is_active=True),
\* the instances the loop iterates over
ActiveCurrencies ==
    Ordered({p \in DOMAIN currencies :
                ~currencies[p].is_deleted /\ currencies[p].is_active})

\* a rate of a feed that is no number: Decimal() raises InvalidOperation
Malformed == Dec(0, -1)

\* a parser that takes any text for a number
IsMalformedNever(v) == FALSE

\* Decimal(text) raises InvalidOperation
IsMalformed(v) == v.s < 0

\* the anchor of the central bank feed
Anchor == "EUR"

\* rates the central bank feed can carry: 0, 0.8 and 1.2
ECBValues == {Dec(0, 1), Dec(8, 1), Dec(12, 1)}

\* values of conversion_rates in the provider's JSON, null and 1.085
APIValues == {Malformed, Dec(1085, 3)}

Tables(values) == UNION {[D -> values] : D \in SUBSET Codes}

\* outcomes of urlopen + ET.parse + the Decimal() of every Cube
ECBFetches ==
    {[ok |-> FALSE, table |-> << >>]}
        \cup {[ok |-> TRUE, table |-> t] : t \in Tables(ECBValues)}

\* outcomes of urlopen + json.loads: ok is FALSE when either raises,
\* result is the "result" member of the payload
APIFetches ==
    {[ok |-> FALSE, result |-> "", table |-> << >>],
     [ok |-> TRUE, result |-> "error", table |-> << >>]}
        \cup {[ok |-> TRUE, result |-> "success", table |-> t] :
                 t \in Tables(APIValues)}

\* if settings_obj.rate_source == 'manual' taken for no source
IsManualNever(settings_obj) == FALSE

\* if settings_obj.rate_source == 'manual'
IsManual(settings_obj) == settings_obj.rate_source = "manual"

\* if not settings_obj.api_key taken for no key
MissingKeyNever(settings_obj) == FALSE

\* if not settings_obj.api_key
MissingKey(settings_obj) == settings_obj.api_key = ""

Ended(frame, status, error) ==
    [frame EXCEPT !.pc = "done", !.status = status, !.error = error,
                  !.table = << >>, !.todo = << >>, !.pk = 0, !.new_rate = 0]

\* the request up to its first access to the provider
UpdateRatesBegin(r) ==
    /\ run[r].pc \in {"idle", "done"}
    /\ settings' = get_settings
    /\ UNCHANGED <<calc, conv, currencies, nextPk, history, nextHid, now, resp,
                 payments, listing, answer>>
    /\ LET settings_obj == get_settings
           frame == [IdleRun EXCEPT !.source = settings_obj.rate_source,
                                    !.base = Upper(settings_obj.base_currency)]
       IN  run' = [run EXCEPT ![r] =
               IF IsManual(settings_obj)
               THEN Ended(frame, 400, "manual")
               ELSE IF settings_obj.rate_source = "ecb"
               THEN [frame EXCEPT !.pc = "fetch"]
               ELSE IF settings_obj.rate_source = "exchangerate_api"
               THEN IF MissingKey(settings_obj)
                    THEN Ended(frame, 400, "api_key")
                    ELSE [frame EXCEPT !.pc = "fetch"]
               ELSE Ended(frame, 200, "")]

\* the fetch of the central bank feed, then the query of the loop
FetchECB(r, fetch) ==
    /\ run[r].pc = "fetch"
    /\ run[r].source = "ecb"
    /\ UNCHANGED <<calc, conv, dbVars, resp, listing, answer>>
    /\ run' = [run EXCEPT ![r] =
           IF ~fetch.ok
           THEN Ended([@ EXCEPT !.fetched = TRUE], 500, "fetch")
           ELSE [@ EXCEPT !.fetched = TRUE, !.pc = "loop", !.loaded = TRUE,
                          !.table = fetch.table, !.todo = ActiveCurrencies,
                          !.queried = ActiveCurrencies]]

\* the fetch of the provider's JSON, then the query of the loop
FetchAPI(r, fetch) ==
    /\ run[r].pc = "fetch"
    /\ run[r].source = "exchangerate_api"
    /\ UNCHANGED <<calc, conv, dbVars, resp, listing, answer>>
    /\ run' = [run EXCEPT ![r] =
           IF ~fetch.ok
           THEN Ended([@ EXCEPT !.fetched = TRUE], 500, "fetch")
           ELSE IF fetch.result # "success"
           THEN Ended([@ EXCEPT !.fetched = TRUE], 500, "provider")
           ELSE [@ EXCEPT !.fetched = TRUE, !.pc = "loop", !.loaded = TRUE,
                          !.table = fetch.table, !.todo = ActiveCurrencies,
                          !.queried = ActiveCurrencies]]

\* the ecb branch with its second case taking the base's feed rate as it is
ResolveECBNoReciprocal(ecb_rates, base, code) ==
    IF base = Anchor /\ code \in DOMAIN ecb_rates
    THEN [kind |-> "direct", num |-> ecb_rates[code], den |-> Dec(1, 0)]
    ELSE IF base \in DOMAIN ecb_rates /\ code = Anchor
    THEN [kind |-> "direct", num |-> ecb_rates[base], den |-> Dec(1, 0)]
    ELSE IF base \in DOMAIN ecb_rates /\ code \in DOMAIN ecb_rates
    THEN IF ecb_rates[base].c = 0
         THEN [kind |-> "raise", num |-> ecb_rates[code],
               den |-> ecb_rates[base]]
         ELSE [kind |-> "ratio", num |-> ecb_rates[code],
               den |-> ecb_rates[base]]
    ELSE [kind |-> "none", num |-> Dec(0, 0), den |-> Dec(1, 0)]

\* new_rate of the ecb branch before its quantize: kind is "none" when no
\* case applies and "raise" when the division raises
ResolveECB(ecb_rates, base, code) ==
    IF base = Anchor /\ code \in DOMAIN ecb_rates
    THEN [kind |-> "direct", num |-> ecb_rates[code], den |-> Dec(1, 0)]
    ELSE IF base \in DOMAIN ecb_rates /\ code = Anchor
    THEN IF ecb_rates[base].c = 0
         THEN [kind |-> "raise", num |-> Dec(1, 0), den |-> ecb_rates[base]]
         ELSE [kind |-> "ratio", num |-> Dec(1, 0), den |-> ecb_rates[base]]
    ELSE IF base \in DOMAIN ecb_rates /\ code \in DOMAIN ecb_rates
    THEN IF ecb_rates[base].c = 0
         THEN [kind |-> "raise", num |-> ecb_rates[code],
               den |-> ecb_rates[base]]
         ELSE [kind |-> "ratio", num |-> ecb_rates[code],
               den |-> ecb_rates[base]]
    ELSE [kind |-> "none", num |-> Dec(0, 0), den |-> Dec(1, 0)]

\* new_rate of the exchangerate_api branch before its quantize
ResolveAPI(api_rates, base, code) ==
    IF code \in DOMAIN api_rates
    THEN IF IsMalformed(api_rates[code])
         THEN [kind |-> "raise", num |-> Dec(0, 0), den |-> Dec(1, 0)]
         ELSE [kind |-> "direct", num |-> api_rates[code], den |-> Dec(1, 0)]
    ELSE [kind |-> "none", num |-> Dec(0, 0), den |-> Dec(1, 0)]

\* new_rate.quantize(Decimal('0.000001')), in millionths
QuantizeRate(res) ==
    DivQuantize(res.num, res.den, RateScale, "ROUND_HALF_EVEN").c

\* one iteration of the loop up to currency.save(update_fields=[...])
UpdateRatesStep(r) ==
    /\ run[r].pc = "loop"
    /\ run[r].todo # << >>
    /\ UNCHANGED <<calc, conv, nextPk, history, nextHid, settings, resp,
                 payments, listing, answer>>
    /\ LET currency == Head(run[r].todo)
           code == Upper(currency.code)
           rest == [run[r] EXCEPT !.todo = Tail(@)]
           res == IF run[r].source = "ecb"
                  THEN ResolveECB(run[r].table, run[r].base, code)
                  ELSE ResolveAPI(run[r].table, run[r].base, code)
       IN  IF code = run[r].base
           THEN /\ run' = [run EXCEPT ![r] = rest]
                /\ UNCHANGED <<currencies, now>>
           ELSE IF res.kind = "raise"
           THEN /\ run' = [run EXCEPT ![r] = Ended(rest, 500, "exception")]
                /\ UNCHANGED <<currencies, now>>
           ELSE IF res.kind = "none"
           THEN /\ run' = [run EXCEPT ![r] =
                       [rest EXCEPT !.warnings = Append(@, code)]]
                /\ UNCHANGED <<currencies, now>>
           ELSE IF currency.pk \notin DOMAIN currencies
           THEN \* the row was purged since the query: save(update_fields)
                \* raises DatabaseError
                /\ run' = [run EXCEPT ![r] = Ended(rest, 500, "exception")]
                /\ UNCHANGED <<currencies, now>>
           ELSE /\ now + 1 <= MaxClock
                /\ currencies' = [currencies EXCEPT
                       ![currency.pk].exchange_rate = QuantizeRate(res),
                       ![currency.pk].last_updated = now]
                /\ now' = now + 1
                /\ run' = [run EXCEPT ![r] =
                       [rest EXCEPT
                          !.pc = "history",
                          !.pk = currency.pk,
                          !.new_rate = QuantizeRate(res),
                          !.saved = Append(@, [pk |-> currency.pk,
                                               rate |-> QuantizeRate(res)])]]

\* ExchangeRateHistory.objects.create(...) of the iteration, then updated += 1
UpdateRatesAppend(r) ==
    /\ run[r].pc = "history"
    /\ run[r].pk \in DOMAIN currencies
    /\ UNCHANGED <<calc, conv, currencies, nextPk, settings, resp, payments,
                 listing, answer>>
    /\ history' = Append(history,
           HistoryEntry(run[r].pk, run[r].new_rate, run[r].source, now))
    /\ nextHid' = nextHid + 1
    /\ now' = now + 1
    /\ run' = [run EXCEPT ![r] =
           [@ EXCEPT !.pc = "loop", !.pk = 0, !.new_rate = 0,
                     !.updated = @ + 1, !.logged = @ \cup {nextHid}]]

\* ExchangeRateHistory.objects.create(...) raises: except Exception answers
UpdateRatesAppendFails(r) ==
    /\ run[r].pc = "history"
    /\ UNCHANGED <<calc, conv, dbVars, resp, listing, answer>>
    /\ run' = [run EXCEPT ![r] = Ended(@, 500, "exception")]

\* the loop is over: JsonResponse(result)
UpdateRatesEnd(r) ==
    /\ run[r].pc = "loop"
    /\ run[r].todo = << >>
    /\ UNCHANGED <<calc, conv, dbVars, resp, listing, answer>>
    /\ run' = [run EXCEPT ![r] = Ended(@, 200, "")]

\* registries the handlers of the hub produce: rows added by the add_currency
\* tool (no last_updated, no history), toggled or soft-deleted since
InitialRows ==
    [code : Codes, decimal_places : {2}, exchange_rate : {1085000},
     is_active : BOOLEAN, is_deleted : BOOLEAN, last_updated : {0},
     sort_order : {0}]

Registries ==
    {f \in UNION {[1..n -> InitialRows] : n \in 0..MaxCurrencies} :
        \A p, q \in DOMAIN f : p # q => f[p].code # f[q].code}

\* settings a settings_save leaves behind
SavedSettings ==
    [created : {TRUE}, base_currency : {"EUR", "usd"},
     auto_update_rates : {FALSE}, update_frequency : {"daily"},
     rate_source : {"manual", "ecb", "exchangerate_api"},
     api_key : {"", "k3y"}]

InitRates ==
    /\ CalcIdle
    /\ currencies \in Registries
    /\ nextPk = Len(currencies) + 1
    /\ history = << >>
    /\ nextHid = 1
    /\ settings \in SavedSettings \cup {DefaultSettings}
    /\ now = 1
    /\ resp = Response("none", 0, FALSE, 0)
    /\ run = [r \in {1} |-> IdleRun]
    /\ conv = NoConversion
    /\ payments = << >>
    /\ listing = [filter |-> "", entries |-> << >>]
    /\ answer = NoAnswer

NextRates ==
    \/ \E r \in DOMAIN run : UpdateRatesBegin(r)
    \/ \E r \in DOMAIN run, fetch \in ECBFetches : FetchECB(r, fetch)
    \/ \E r \in DOMAIN run, fetch \in APIFetches : FetchAPI(r, fetch)
    \/ \E r \in DOMAIN run : UpdateRatesStep(r)
    \/ \E r \in DOMAIN run : UpdateRatesAppend(r)
    \/ \E r \in DOMAIN run : UpdateRatesAppendFails(r)
    \/ \E r \in DOMAIN run : UpdateRatesEnd(r)

SpecRates == InitRates /\ [][NextRates]_vars

\* ------------------------------------------------------------------------
\* views.api_convert
\* ------------------------------------------------------------------------

\* the lookup of api_convert without is_active=True
LookupInactiveToo(code) ==
    {p \in DOMAIN currencies :
        currencies[p].code = code /\ ~currencies[p].is_deleted}

\* Currency.objects.filter(hub_id=hub, code=code, is_active=True,
\*                         is_deleted=False).first(): the pks it can return
Lookup(code) ==
    {p \in DOMAIN currencies :
        /\ currencies[p].code = code
        /\ currencies[p].is_active
        /\ ~currencies[p].is_deleted}

\* Decimal(to_rate) / Decimal(from_rate) raises DivisionByZero, or
\* InvalidOperation for 0 / 0
RateRaises(from_rate) == from_rate = 0

Failed(status, error, from_code, to_code) ==
    Conversion(status, error, from_code, to_code, Dec(0, 0), Dec(0, 0), 0, 1)

RECURSIVE GCD(_, _)
GCD(a, b) == IF b = 0 THEN a ELSE GCD(b, a % b)

\* a conversion by the direct product amount * (to_rate / from_rate), with
\* no rounding between the two currencies
ConvertedDirect(from_code, to_code, amount, from_currency, to_currency) ==
    LET to_rate == IF to_currency # 0
                   THEN currencies[to_currency].exchange_rate
                   ELSE Pow10(RateScale)
        from_rate == IF from_currency # 0
                     THEN currencies[from_currency].exchange_rate
                     ELSE Pow10(RateScale)
        g == GCD(to_rate, from_rate)
        places == IF to_currency # 0
                  THEN currencies[to_currency].decimal_places
                  ELSE BaseScale
        result ==
            IF from_currency = 0 /\ to_currency = 0 THEN amount
            ELSE IF to_rate = 0 THEN Dec(0, 0)
            ELSE DivQuantize(Dec(amount.c * (to_rate \div g), amount.s),
                             Dec(from_rate \div g, 0), places,
                             "ROUND_HALF_UP")
    IN  IF RateRaises(from_rate)
        THEN Failed(500, "exception", from_code, to_code)
        ELSE Conversion(200, "", from_code, to_code, amount, result,
                        to_rate, from_rate)

\* from_currency and to_currency are a pk, or 0 for None
Converted(from_code, to_code, amount, from_currency, to_currency) ==
    LET base_amount ==
            IF from_currency # 0
            THEN convert_to_base(currencies[from_currency], amount)
            ELSE amount
        result ==
            IF to_currency # 0
            THEN convert_from_base(currencies[to_currency], base_amount)
            ELSE base_amount
        to_rate == IF to_currency # 0
                   THEN currencies[to_currency].exchange_rate
                   ELSE Pow10(RateScale)
        from_rate == IF from_currency # 0
                     THEN currencies[from_currency].exchange_rate
                     ELSE Pow10(RateScale)
    IN  IF RateRaises(from_rate)
        THEN Failed(500, "exception", from_code, to_code)
        ELSE Conversion(200, "", from_code, to_code, amount, result,
                        to_rate, from_rate)

api_convert(from_arg, to_arg, amount_arg) ==
    /\ UNCHANGED <<calc, currencies, nextPk, history, nextHid, now, resp, run,
                 payments, listing, answer>>
    /\ LET from_code == Upper(from_arg)
           to_code == Upper(to_arg)
           base == Upper(get_settings.base_currency)
       IN  IF IsMalformed(amount_arg)
           THEN /\ conv' = Failed(400, "amount", from_code, to_code)
                /\ UNCHANGED settings
           ELSE IF from_code = "" \/ to_code = ""
           THEN /\ conv' = Failed(400, "params", from_code, to_code)
                /\ UNCHANGED settings
           ELSE /\ settings' = get_settings
                /\ IF from_code # base /\ Lookup(from_code) = {}
                   THEN conv' = Failed(404, from_code, from_code, to_code)
                   ELSE IF to_code # base /\ Lookup(to_code) = {}
                   THEN conv' = Failed(404, to_code, from_code, to_code)
                   ELSE \E f \in IF from_code # base THEN Lookup(from_code)
                                 ELSE {0},
                           t \in IF to_code # base THEN Lookup(to_code)
                                 ELSE {0} :
                           conv' = Converted(from_code, to_code, amount_arg,
                                             f, t)

\* query parameters of api_convert; "" is a parameter left out
CodeParams == {"EUR", "usd", "GBP", ""}

ConvertAmounts == {Malformed, Dec(0, 0), Dec(-150, 2), Dec(305, 3)}

\* registries the handlers of the hub produce, with a zero rate among them;
\* a lookup goes by code, so the rows are taken in one order of creation only
ApiRows ==
    [code : Codes, decimal_places : {0, 2},
     exchange_rate : {0, 400000, 2500000},
     is_active : BOOLEAN, is_deleted : BOOLEAN, last_updated : {0},
     sort_order : {0}]

ApiRegistries ==
    {f \in UNION {[1..n -> ApiRows] : n \in 0..MaxCurrencies} :
        /\ \A p, q \in DOMAIN f :
              p < q => CodeRank(f[p].code) < CodeRank(f[q].code)
        /\ \A p \in DOMAIN f : f[p].is_deleted => ~f[p].is_active}

InitApi ==
    /\ CalcIdle
    /\ currencies \in ApiRegistries
    /\ nextPk = Len(currencies) + 1
    /\ history = << >>
    /\ nextHid = 1
    /\ settings \in {DefaultSettings,
                     [DefaultSettings EXCEPT !.created = TRUE,
                                             !.base_currency = "usd"]}
    /\ now = 1
    /\ resp = Response("none", 0, FALSE, 0)
    /\ run = [r \in {1} |-> IdleRun]
    /\ conv = NoConversion
    /\ payments = << >>
    /\ listing = [filter |-> "", entries |-> << >>]
    /\ answer = NoAnswer

NextApi ==
    \E from_arg \in CodeParams, to_arg \in CodeParams,
       amount_arg \in ConvertAmounts :
        api_convert(from_arg, to_arg, amount_arg)

SpecApi == InitApi /\ [][NextApi]_vars

\* ------------------------------------------------------------------------
\* views.settings_save (POST) with a form that validates
\* ------------------------------------------------------------------------

SettingsForms ==
    [base_currency : {"EUR", "usd"}, auto_update_rates : {FALSE},
     update_frequency : {"daily"}, rate_source : {"manual", "ecb"},
     api_key : {""}]

settings_save(form) ==
    /\ UNCHANGED <<calc, run, conv, currencies, nextPk, history, nextHid, now,
                   payments, listing, answer>>
    /\ settings' = [created |-> TRUE,
                    base_currency |-> form.base_currency,
                    auto_update_rates |-> form.auto_update_rates,
                    update_frequency |-> form.update_frequency,
                    rate_source |-> form.rate_source,
                    api_key |-> form.api_key]
    /\ resp' = Response("settings_save", 200, TRUE, 0)

\* ------------------------------------------------------------------------
\* CurrencyPayment rows: created by the caller that records a sale, and
\* soft-deleted by it
\* ------------------------------------------------------------------------

\* the amounts a caller passes to CurrencyPayment.objects.create
PaymentValues ==
    {[original_amount |-> Dec(10850, 2), exchange_rate_used |-> 1085000,
      base_amount |-> Dec(10000, 2)],
     [original_amount |-> Dec(5000, 2), exchange_rate_used |-> 1085000,
      base_amount |-> Dec(4608, 2)]}

\* CurrencyPayment.objects.create(currency=..., original_amount=..., ...)
RecordPayment(pk, values) ==
    /\ Len(payments) < MaxPayments
    /\ pk \in DOMAIN currencies
    /\ UNCHANGED <<calc, run, conv, currencies, nextPk, history, nextHid,
                   settings, now, resp, listing, answer>>
    /\ payments' = Append(payments,
           [id |-> Len(payments) + 1, currency |-> pk,
            original_amount |-> values.original_amount,
            exchange_rate_used |-> values.exchange_rate_used,
            base_amount |-> values.base_amount, is_deleted |-> FALSE])

\* payment.delete(): the row stays, flagged
SoftDeletePayment(i) ==
    /\ i \in DOMAIN payments
    /\ ~payments[i].is_deleted
    /\ UNCHANGED <<calc, run, conv, currencies, nextPk, history, nextHid,
                   settings, now, resp, listing, answer>>
    /\ payments' = [payments EXCEPT ![i].is_deleted = TRUE]

\* ------------------------------------------------------------------------
\* views.currency_delete
\* ------------------------------------------------------------------------

\* the check of the payments that counts the soft-deleted ones too
HasPaymentsAny(pk) ==
    \E i \in DOMAIN payments : payments[i].currency = pk

\* CurrencyPayment.objects.filter(currency=currency,
\*                                is_deleted=False).exists()
HasPayments(pk) ==
    \E i \in DOMAIN payments :
        payments[i].currency = pk /\ ~payments[i].is_deleted

currency_delete(pk) ==
    /\ UNCHANGED <<calc, run, conv, nextPk, history, nextHid, now, payments,
                   listing, answer>>
    /\ IF ~Found(pk)
       THEN /\ resp' = Response("currency_delete", 404, FALSE, pk)
            /\ UNCHANGED <<currencies, settings>>
       ELSE IF HasPayments(pk)
       THEN /\ resp' = Response("currency_delete", 400, FALSE, pk)
            /\ UNCHANGED <<currencies, settings>>
       ELSE /\ currencies' = [currencies EXCEPT ![pk].is_deleted = TRUE]
            /\ settings' = get_settings
            /\ resp' = Response("currency_delete", 200, TRUE, pk)

\* ------------------------------------------------------------------------
\* currency.delete(hard_delete=True): the row is removed, and the rows that
\* refer to it follow the on_delete of their foreign key
\* ------------------------------------------------------------------------

\* a foreign key of the history that removes every entry with its currency
CascadeAll(entries, pk) == << >>

\* ExchangeRateHistory.currency: on_delete=models.CASCADE
Cascade(entries, pk) == SelectSeq(entries, LAMBDA e : e.currency # pk)

\* a foreign key of the payments that cascades as the one of the history
SetNullCascades(rows, pk) == SelectSeq(rows, LAMBDA row : row.currency # pk)

\* CurrencyPayment.currency: on_delete=models.SET_NULL (0 is NULL)
SetNull(rows, pk) ==
    [i \in DOMAIN rows |->
        IF rows[i].currency = pk THEN [rows[i] EXCEPT !.currency = 0]
        ELSE rows[i]]

HardDelete(pk) ==
    /\ pk \in DOMAIN currencies
    /\ UNCHANGED <<calc, run, conv, nextPk, nextHid, settings, now, listing,
                   answer>>
    /\ currencies' = [p \in DOMAIN currencies \ {pk} |-> currencies[p]]
    /\ history' = Cascade(history, pk)
    /\ payments' = SetNull(payments, pk)
    /\ resp' = Response("hard_delete", 200, TRUE, pk)

\* ------------------------------------------------------------------------
\* views.history
\* ------------------------------------------------------------------------

\* the history in the order of insertion, the order of no order_by
InsertionOrder(entries) == entries

RECURSIVE NewestFirst(_)
\* order_by('-recorded_at')
NewestFirst(entries) ==
    IF entries = << >> THEN << >>
    ELSE LET i == CHOOSE i \in DOMAIN entries :
                      \A j \in DOMAIN entries :
                          entries[j].recorded_at <= entries[i].recorded_at
         IN  <<entries[i]>>
                 \o NewestFirst([k \in 1..(Len(entries) - 1) |->
                                    IF k < i THEN entries[k]
                                    ELSE entries[k + 1]])

\* qs[:100]
Page(entries) ==
    SubSeq(entries, 1, IF Len(entries) < HistoryPageSize THEN Len(entries)
                       ELSE HistoryPageSize)

\* currency_filter is the "currency" parameter, "" when it is left out
history_view(currency_filter) ==
    /\ UNCHANGED <<calc, run, conv, dbVars, resp, answer>>
    /\ LET qs == NewestFirst(history)
           filtered ==
               IF currency_filter # ""
               THEN SelectSeq(qs, LAMBDA e :
                        currencies[e.currency].code = currency_filter)
               ELSE qs
       IN  listing' = [filter |-> currency_filter, entries |-> Page(filtered)]

Pks == 1..MaxCurrencies

Next ==
    \/ \E form \in Forms : currency_create(form)
    \/ \E code \in CodeInputs, rate \in FormRates, dp \in ToolDecimalPlaces :
          AddCurrency(code, rate, dp)
    \/ \E pk \in Pks, form \in Forms : currency_edit(pk, form)
    \/ \E pk \in Pks : currency_toggle(pk)

Spec == Init /\ [][Next]_vars

\* ------------------------------------------------------------------------
\* The registry with its payments: adding, toggling, deleting and purging
\* currencies while sales record payments
\* ------------------------------------------------------------------------

HubForms ==
    {form \in ValidForms :
        /\ form.code \in {"usd", "GBP"}
        /\ form.is_active
        /\ form.sort_order = 0} \cup {InvalidForm}

NextRegistry ==
    \/ \E form \in HubForms : currency_create(form)
    \/ \E rate \in FormRates : AddCurrency("USD", rate, 2)
    \/ \E pk \in Pks : currency_toggle(pk)
    \/ \E pk \in Pks : currency_delete(pk)
    \/ \E pk \in Pks : HardDelete(pk)
    \/ \E pk \in Pks, values \in PaymentValues : RecordPayment(pk, values)
    \/ \E i \in 1..MaxPayments : SoftDeletePayment(i)

SpecRegistry == Init /\ [][NextRegistry]_vars

\* ------------------------------------------------------------------------
\* The ledger of the rates: every operation that writes a rate or removes a
\* currency, and the history page
\* ------------------------------------------------------------------------

LedgerFetches ==
    {[ok |-> FALSE, table |-> << >>],
     [ok |-> TRUE, table |-> [c \in {"GBP", "USD"} |->
                                 IF c = "GBP" THEN Dec(8, 1) ELSE Dec(12, 1)]]}

\* the settings of a hub that takes its rates from the central bank feed
LedgerSettings == {form \in SettingsForms : form.rate_source = "ecb"}

HistoryFilters == {"", "USD"}

NextLedger ==
    \/ \E form \in HubForms : currency_create(form)
    \/ AddCurrency("USD", 1085000, 2)
    \/ \E pk \in Pks, form \in HubForms : currency_edit(pk, form)
    \/ \E pk \in Pks : HardDelete(pk)
    \/ \E form \in LedgerSettings : settings_save(form)
    \/ \E currency_filter \in HistoryFilters : history_view(currency_filter)
    \/ \E r \in DOMAIN run : UpdateRatesBegin(r)
    \/ \E r \in DOMAIN run, fetch \in LedgerFetches : FetchECB(r, fetch)
    \/ \E r \in DOMAIN run : UpdateRatesStep(r)
    \/ \E r \in DOMAIN run : UpdateRatesAppend(r)
    \/ \E r \in DOMAIN run : UpdateRatesAppendFails(r)
    \/ \E r \in DOMAIN run : UpdateRatesEnd(r)

SpecLedger == Init /\ [][NextLedger]_vars

\* ------------------------------------------------------------------------
\* Properties of the registry handlers
\* ------------------------------------------------------------------------

Last(seq) == seq[Len(seq)]

\* C5 as stated: every successful add of a currency (the currency_create view
\* and the add_currency tool) appends exactly one history entry for the new
\* currency, with source 'manual' and the currency's initial exchange_rate.
C5_AddAppendsOneManualEntry ==
    [][(resp'.op \in {"currency_create", "add_currency"}
          /\ resp'.ok /\ nextPk' = nextPk + 1)
        => /\ Len(history') = Len(history) + 1
           /\ SubSeq(history', 1, Len(history)) = history
           /\ Last(history').currency = nextPk
           /\ Last(history').source = "manual"
           /\ Last(history').rate = currencies'[nextPk].exchange_rate]_vars

\* C6: a successful currency_edit appends exactly one history entry (source
\* 'manual', rate = the new rate) and sets last_updated if and only if the
\* submitted exchange_rate differs from the stored one; an edit that leaves
\* the rate unchanged appends nothing and keeps last_updated.
C6_EditLogsIffRateChanged ==
    [][(resp'.op = "currency_edit" /\ resp'.ok)
        => LET old == currencies[resp'.pk]
               new == currencies'[resp'.pk]
           IN  IF new.exchange_rate # old.exchange_rate
               THEN /\ Len(history') = Len(history) + 1
                    /\ SubSeq(history', 1, Len(history)) = history
                    /\ Last(history').currency = resp'.pk
                    /\ Last(history').source = "manual"
                    /\ Last(history').rate = new.exchange_rate
                    /\ new.last_updated >= now
               ELSE /\ history' = history
                    /\ new.last_updated = old.last_updated]_vars

\* a currency added by the tool, whose only history entry is the one of a
\* successful edit that changed its rate
C6_Witness ==
    /\ resp.op = "currency_edit"
    /\ resp.ok
    /\ Len(history) >= 1
    /\ Cardinality({i \in 1..Len(history) :
                        history[i].currency = resp.pk}) = 1
    /\ Last(history).currency = resp.pk
    /\ Last(history).source = "manual"
    /\ Last(history).rate = currencies[resp.pk].exchange_rate
    /\ Last(history).recorded_at = now - 1
    /\ currencies[resp.pk].last_updated = now - 2

\* C19: after any sequence of add and edit operations no two currencies of
\* the hub have the same code (compared case-insensitively) and every stored
\* code is uppercase; an add (currency_create or the add_currency tool) whose
\* code already exists in the hub is rejected with the duplicate error and
\* leaves the registry and the history unchanged.
C19_CodesUniqueAndUppercase ==
    /\ [](\A p, q \in DOMAIN currencies :
            /\ currencies[p].code = Upper(currencies[p].code)
            /\ p # q => Upper(currencies[p].code) # Upper(currencies[q].code))
    /\ [][LET Exists_(code) ==
                  \E p \in DOMAIN currencies :
                      Upper(currencies[p].code) = Upper(code)
              Rejected ==
                  /\ ~resp'.ok
                  /\ resp'.status \in {400, 500}
                  /\ currencies' = currencies
                  /\ history' = history
          IN  /\ \A form \in ValidForms :
                    (currency_create(form) /\ Exists_(form.code)) => Rejected
              /\ \A code \in CodeInputs, rate \in FormRates,
                       dp \in ToolDecimalPlaces :
                    (AddCurrency(code, rate, dp) /\ Exists_(code))
                        => Rejected]_vars

\* the add_currency tool was rejected for a code that the form had added
C19_Witness ==
    /\ resp.op = "add_currency"
    /\ resp.status = 500
    /\ ~resp.ok
    /\ DOMAIN currencies = {1}
    /\ currencies[1].code = "USD"
    /\ Len(history) = 1
    /\ history[1].currency = 1

\* ------------------------------------------------------------------------
\* Properties of the history
\* ------------------------------------------------------------------------

\* C15: the rate history is append-only: no operation changes the rate,
\* source or recorded_at of an existing history entry, and the only operation
\* that removes entries is the hard delete of a currency, which removes all
\* and only that currency's entries.
C15_HistoryAppendOnly ==
    [][LET Purged(pk) ==
               pk \in DOMAIN currencies /\ pk \notin DOMAIN currencies'
       IN  /\ \A i \in DOMAIN history :
                 IF Purged(history[i].currency)
                 THEN \A j \in DOMAIN history' :
                          history'[j].id # history[i].id
                 ELSE \E j \in DOMAIN history' : history'[j] = history[i]
           /\ \A i \in DOMAIN history, j \in DOMAIN history' :
                 history'[j].id = history[i].id => history'[j] = history[i]
           /\ \A pk \in Pks :
                 HardDelete(pk) =>
                     /\ Purged(pk)
                     /\ \A j \in DOMAIN history' :
                           history'[j].currency # pk]_vars

\* a purge removed the entries of one currency and kept the entry of the
\* other
C15_Witness ==
    /\ resp.op = "hard_delete"
    /\ resp.pk \notin DOMAIN currencies
    /\ nextHid = 3
    /\ Len(history) = 1
    /\ history[1].currency \in DOMAIN currencies
    /\ history[1].currency # resp.pk

\* C16: every history listing (unfiltered or filtered by currency code)
\* returns entries in non-increasing order of recorded_at, after any sequence
\* of add, edit and rate-update operations.
C16_ListingNewestFirst ==
    \A i, j \in DOMAIN listing.entries :
        i < j => listing.entries[i].recorded_at
                     >= listing.entries[j].recorded_at

\* a listing filtered by code that shows the entry of a rate update above
\* the entry of the add
C16_Witness ==
    /\ listing.filter = "USD"
    /\ Len(listing.entries) = 2
    /\ listing.entries[1].source = "ecb"
    /\ listing.entries[2].source = "manual"
    /\ listing.entries[1].recorded_at > listing.entries[2].recorded_at

\* ------------------------------------------------------------------------
\* Properties of deleting and toggling
\* ------------------------------------------------------------------------

\* pk is a currency of the hub that is not flagged deleted
Exists(pk) == pk \in DOMAIN currencies /\ ~currencies[pk].is_deleted

\* the payments that refer to the currency pk and are not flagged deleted
LivePaymentsOf(pk) ==
    {i \in DOMAIN payments :
        payments[i].currency = pk /\ ~payments[i].is_deleted}

\* C13: soft-deleting a currency through currency_delete is rejected (400)
\* whenever at least one non-deleted payment references the currency, and
\* the rejected request leaves the currency's is_deleted flag false; with no
\* such payment the currency becomes flagged deleted.
C13_DeleteRejectedWithPayments ==
    [][\A pk \in Pks :
          (currency_delete(pk) /\ Exists(pk))
              => IF LivePaymentsOf(pk) # {}
                 THEN /\ resp'.status = 400
                      /\ ~resp'.ok
                      /\ ~currencies'[pk].is_deleted
                      /\ currencies' = currencies
                 ELSE /\ resp'.ok
                      /\ currencies'[pk].is_deleted
                      /\ pk \in DOMAIN currencies']_vars

\* a delete was rejected for a currency that has a live payment, while a
\* payment of the hub is flagged deleted
C13_Witness ==
    /\ resp.op = "currency_delete"
    /\ resp.status = 400
    /\ Exists(resp.pk)
    /\ LivePaymentsOf(resp.pk) # {}
    /\ \E i \in DOMAIN payments : payments[i].is_deleted

\* C14: hard-deleting a currency sets the currency reference of every
\* payment that referenced it to null, removes no payment, and leaves each
\* payment's original_amount, exchange_rate_used and base_amount unchanged.
C14_HardDeleteNullsPaymentReference ==
    [][\A pk \in Pks :
          HardDelete(pk)
              => /\ pk \notin DOMAIN currencies'
                 /\ Len(payments') = Len(payments)
                 /\ \A i \in DOMAIN payments :
                       /\ payments'[i].id = payments[i].id
                       /\ payments'[i].original_amount
                             = payments[i].original_amount
                       /\ payments'[i].exchange_rate_used
                             = payments[i].exchange_rate_used
                       /\ payments'[i].base_amount = payments[i].base_amount
                       /\ payments'[i].is_deleted = payments[i].is_deleted
                       /\ payments'[i].currency =
                             IF payments[i].currency = pk THEN 0
                             ELSE payments[i].currency]_vars

\* a currency was purged: one payment lost its reference and kept its
\* amounts, another still refers to its currency
C14_Witness ==
    /\ resp.op = "hard_delete"
    /\ resp.pk \notin DOMAIN currencies
    /\ \E i, j \in DOMAIN payments :
          /\ payments[i].currency = 0
          /\ payments[i].original_amount = Dec(10850, 2)
          /\ payments[i].base_amount = Dec(10000, 2)
          /\ payments[j].currency \in DOMAIN currencies

\* C20: currency_toggle on an existing non-deleted currency negates
\* is_active and leaves its exchange_rate, last_updated and the rate history
\* unchanged, so that two toggles restore the original state; on an unknown
\* or deleted id it returns not-found and changes nothing.
C20_ToggleFlipsOnlyIsActive ==
    [][\A pk \in Pks :
          currency_toggle(pk)
              => IF Exists(pk)
                 THEN /\ resp'.ok
                      /\ currencies'[pk].is_active = ~currencies[pk].is_active
                      /\ currencies'[pk].exchange_rate
                            = currencies[pk].exchange_rate
                      /\ currencies'[pk].last_updated
                            = currencies[pk].last_updated
                      /\ [currencies'[pk] EXCEPT !.is_active = ~@]
                            = currencies[pk]
                      /\ \A q \in DOMAIN currencies \ {pk} :
                            currencies'[q] = currencies[q]
                      /\ DOMAIN currencies' = DOMAIN currencies
                      /\ history' = history
                 ELSE /\ resp'.status = 404
                      /\ ~resp'.ok
                      /\ currencies' = currencies
                      /\ history' = history
                      /\ payments' = payments
                      /\ settings' = settings]_vars

\* a currency with a recorded rate was deactivated by a toggle, next to a
\* currency that is flagged deleted
C20_Witness ==
    /\ resp.op = "currency_toggle"
    /\ resp.ok
    /\ Exists(resp.pk)
    /\ ~currencies[resp.pk].is_active
    /\ currencies[resp.pk].last_updated # 0
    /\ \E i \in DOMAIN history : history[i].currency = resp.pk
    /\ \E q \in DOMAIN currencies : currencies[q].is_deleted

\* ------------------------------------------------------------------------
\* Properties of update_rates
\* ------------------------------------------------------------------------

\* the history entries a request created
LoggedBy(r) == {i \in 1..Len(history) : history[i].id \in run[r].logged}

\* C7 as stated: after any run of update_rates, every currency whose
\* exchange_rate the run changed has exactly one history entry appended by
\* the run, with the same rate and the run's source, also when the append
\* fails after the currency was saved.
C7_EveryRateChangeHasItsEntry ==
    \A r \in DOMAIN run :
        run[r].pc = "done" =>
            \A i \in 1..Len(run[r].saved) :
                Cardinality({j \in LoggedBy(r) :
                    /\ history[j].currency = run[r].saved[i].pk
                    /\ history[j].rate = run[r].saved[i].rate
                    /\ history[j].source = run[r].source}) = 1

\* C8 as stated: whenever update_rates ends with a terminal error, the run
\* changed no currency's exchange_rate or last_updated and appended no
\* history entry.
C8_TerminalErrorChangedNothing ==
    \A r \in DOMAIN run :
        (run[r].pc = "done" /\ run[r].status \in {400, 500}) =>
            /\ run[r].saved = << >>
            /\ run[r].logged = {}

\* rate, in millionths, is num / den rounded to 6 decimal places
IsRateOf(rate, num, den) ==
    LET n == num.c * Pow10(RateScale) * Pow10(den.s)
        d == den.c * Pow10(num.s)
    IN  2 * Abs(rate * d - n) <= d

\* the iteration of the loop that r takes next is about a currency other
\* than the base
Reconciles(r) ==
    /\ run[r].pc = "loop"
    /\ run[r].todo # << >>
    /\ run'[r] # run[r]
    /\ Upper(Head(run[r].todo).code) # run[r].base

\* C11: in the central bank feed reconciliation, for every feed table, base
\* and hub currency code other than the base, the new rate is feed[code] if
\* the base is the anchor (EUR) and the code is in the feed, 1 / feed[base]
\* if the code is the anchor and the base is in the feed, feed[code] /
\* feed[base] if both are in the feed, and otherwise the currency is
\* unresolved; the resolved rate is rounded to 6 decimal places.  (A feed
\* rate of 0 for the base has no quotient and is left out.)
C11_ECBRateReconciled ==
    [][\A r \in DOMAIN run :
          (Reconciles(r) /\ run[r].source = "ecb")
              => LET feed == run[r].table
                     base == run[r].base
                     currency == Head(run[r].todo)
                     code == Upper(currency.code)
                     resolved == run'[r].pc = "history"
                     rate == run'[r].new_rate
                     stored ==
                         /\ resolved
                         /\ currencies'[currency.pk].exchange_rate = rate
                 IN  IF base = Anchor /\ code \in DOMAIN feed
                     THEN stored /\ IsRateOf(rate, feed[code], Dec(1, 0))
                     ELSE IF code = Anchor /\ base \in DOMAIN feed
                     THEN feed[base].c # 0 =>
                            stored /\ IsRateOf(rate, Dec(1, 0), feed[base])
                     ELSE IF code \in DOMAIN feed /\ base \in DOMAIN feed
                     THEN feed[base].c # 0 =>
                            stored /\ IsRateOf(rate, feed[code], feed[base])
                     ELSE /\ ~resolved
                          /\ run'[r].pc = "loop"
                          /\ currencies' = currencies]_vars

\* a cross rate that needed rounding, 0.8 / 1.2 = 0.666667, was stored
C11_Witness ==
    /\ run[1].pc = "history"
    /\ run[1].source = "ecb"
    /\ run[1].base = "USD"
    /\ "USD" \in DOMAIN run[1].table
    /\ run[1].table["USD"] = Dec(12, 1)
    /\ run[1].new_rate = 666667
    /\ currencies[run[1].pk].code = "GBP"
    /\ currencies[run[1].pk].exchange_rate = 666667

\* how many elements of seq satisfy Test
Count(seq, Test(_)) == Cardinality({i \in 1..Len(seq) : Test(seq[i])})

\* C12 as stated: in a run of update_rates whose fetch completed, every
\* active non-deleted currency other than the base is processed exactly
\* once, either updated (counted in updated) or reported as one warning; an
\* unresolved currency never stops the processing of the remaining ones, and
\* the base currency is neither updated nor warned about.
C12_EveryCurrencyProcessedOnce ==
    \A r \in DOMAIN run :
        (run[r].pc = "done" /\ run[r].loaded) =>
            LET frame == run[r]
                Updated(c) ==
                    Count(frame.saved, LAMBDA w : w.pk = c.pk)
                Warned(c) ==
                    Count(frame.warnings, LAMBDA w : w = Upper(c.code))
            IN  /\ frame.updated = Len(frame.saved)
                /\ \A i \in 1..Len(frame.queried) :
                      LET c == frame.queried[i]
                      IN  IF Upper(c.code) = frame.base
                          THEN Updated(c) = 0 /\ Warned(c) = 0
                          ELSE Updated(c) + Warned(c) = 1

\* a step that answers an invocation of update_rates
Invokes(r) == run[r].pc \in {"idle", "done"} /\ run'[r] # run[r]

\* C9: when the configured rate source is 'manual', every invocation of
\* update_rates fails with the manual-source error (400) and changes no
\* currency and no history entry.
C9_ManualSourceRejected ==
    [][\A r \in DOMAIN run :
          (Invokes(r) /\ get_settings.rate_source = "manual")
              => /\ run'[r].pc = "done"
                 /\ run'[r].status = 400
                 /\ run'[r].error = "manual"
                 /\ ~run'[r].fetched
                 /\ currencies' = currencies
                 /\ history' = history]_vars

\* a rejected invocation in a hub that has a currency an update would reach
C9_Witness ==
    /\ run[1].pc = "done"
    /\ run[1].status = 400
    /\ run[1].error = "manual"
    /\ settings.created
    /\ settings.rate_source = "manual"
    /\ \E p \in DOMAIN currencies :
          /\ currencies[p].is_active
          /\ ~currencies[p].is_deleted
          /\ currencies[p].code # Upper(settings.base_currency)

\* C10: when the rate source is the commercial API and the configured
\* api_key is empty, update_rates fails with the missing-credential error
\* (400) before any fetch is attempted and without changing any currency or
\* history entry.
C10_MissingKeyRejectedBeforeFetch ==
    [][\A r \in DOMAIN run :
          (/\ Invokes(r)
           /\ get_settings.rate_source = "exchangerate_api"
           /\ get_settings.api_key = "")
              => /\ run'[r].pc = "done"
                 /\ run'[r].status = 400
                 /\ run'[r].error = "api_key"
                 /\ ~run'[r].fetched
                 /\ currencies' = currencies
                 /\ history' = history]_vars

\* a rejected invocation in a hub that has a currency an update would reach
C10_Witness ==
    /\ run[1].pc = "done"
    /\ run[1].status = 400
    /\ run[1].error = "api_key"
    /\ ~run[1].fetched
    /\ settings.rate_source = "exchangerate_api"
    /\ settings.api_key = ""
    /\ \E p \in DOMAIN currencies :
          /\ currencies[p].is_active
          /\ ~currencies[p].is_deleted
          /\ currencies[p].code # Upper(settings.base_currency)

\* ------------------------------------------------------------------------
\* Properties of api_convert
\* ------------------------------------------------------------------------

\* the request named two codes that each are the base or a registered active
\* currency, and a numeric amount
ConvertibleRequest ==
    /\ conv.status # 0
    /\ conv.error \notin {"amount", "params"}
    /\ \A code \in {conv.from, conv.to} :
          code = Upper(settings.base_currency) \/ Lookup(code) # {}

\* C4 as stated: api_convert never raises for any numeric amount and any
\* pair of registered active currencies, also when the source or the target
\* has exchange_rate 0: it always returns a result and a rate.
C4_ConvertNeverRaises ==
    ConvertibleRequest => conv.status = 200

\* a and b are the same number
DecEq(a, b) == a.c * Pow10(b.s) = b.c * Pow10(a.s)

\* an active, non-deleted currency of the hub has this code
Registered(code) ==
    \E p \in DOMAIN currencies :
        /\ currencies[p].code = code
        /\ currencies[p].is_active
        /\ ~currencies[p].is_deleted

\* the request had a numeric amount and named both codes
WellFormedRequest ==
    /\ conv.status # 0
    /\ conv.error \notin {"amount", "params"}

\* C17 as stated: api_convert with a source and target code that are
\* identical returns the input amount unchanged, for every registered active
\* currency (base or not) and every amount.
C17_SameCodeReturnsAmount ==
    (/\ WellFormedRequest
     /\ conv.from = conv.to
     /\ conv.from = Upper(settings.base_currency) \/ Registered(conv.from))
        => /\ conv.status = 200
           /\ DecEq(conv.result, conv.amount)

NextConvert ==
    \/ /\ CallConvertFromBase
       /\ UNCHANGED <<dbVars, resp, run, conv, listing, answer>>
    \/ /\ CallConvertToBase
       /\ UNCHANGED <<dbVars, resp, run, conv, listing, answer>>

InitConvert ==
    /\ CalcInit
    /\ currencies = << >>
    /\ nextPk = 1
    /\ history = << >>
    /\ nextHid = 1
    /\ settings = DefaultSettings
    /\ now = 1
    /\ resp = Response("none", 0, FALSE, 0)
    /\ run = [r \in {1} |-> IdleRun]
    /\ conv = NoConversion
    /\ payments = << >>
    /\ listing = [filter |-> "", entries |-> << >>]
    /\ answer = NoAnswer

SpecConvert == InitConvert /\ [][NextConvert]_vars

\* ------------------------------------------------------------------------
\* Properties of the conversions
\* ------------------------------------------------------------------------

Min(a, b) == IF a < b THEN a ELSE b

\* one unit at the smaller of the scales 2 and decimal_places, in hundredths
RoundTripTolerance(cur) == Pow10(BaseScale - Min(BaseScale, cur.decimal_places))

IsRoundTrip ==
    /\ calc.ops = <<"from_base", "to_base">>
    /\ calc.x0.s = BaseScale

\* C1 as stated: for every currency with exchange_rate > 0 and every amount
\* x with 2 decimals, convert_to_base(convert_from_base(x)) is within one
\* unit at the smaller of the scales 2 and decimal_places of x.
C1_RoundTripAnyRate ==
    (IsRoundTrip /\ calc.cur.exchange_rate > 0)
        => /\ calc.out.s = BaseScale
           /\ Abs(calc.out.c - calc.x0.c) <= RoundTripTolerance(calc.cur)

\* C1 amended: the round trip law holds for every currency whose
\* exchange_rate is at least 1 (a unit of the currency is worth at most a
\* unit of the base), for every amount x with 2 decimals.
C1_RoundTripRateAtLeastOne ==
    (IsRoundTrip /\ calc.cur.exchange_rate >= Pow10(RateScale))
        => /\ calc.out.s = BaseScale
           /\ Abs(calc.out.c - calc.x0.c) <= RoundTripTolerance(calc.cur)

\* a round trip at a rate above 1 and a coarser scale that does not give
\* x back, but stays within the tolerance
C1_Witness ==
    /\ IsRoundTrip
    /\ calc.cur.exchange_rate > Pow10(RateScale)
    /\ calc.cur.decimal_places < BaseScale
    /\ calc.out.c # calc.x0.c
    /\ Abs(calc.out.c - calc.x0.c) <= RoundTripTolerance(calc.cur)

\* y is n / d rounded half-up (ties away from zero) to an integer
IsHalfUpOf(y, n, d) ==
    LET diff == y * d - n
    IN  /\ 2 * Abs(diff) <= d
        /\ (2 * Abs(diff) = d) => Abs(y * d) > Abs(n)

\* C2: convert_from_base(x) is x * exchange_rate rounded half-up to exactly
\* decimal_places fractional digits, and convert_to_base(x) is
\* x / exchange_rate rounded half-up to exactly 2 fractional digits whatever
\* decimal_places is, for every currency with a non-zero rate.
C2_RoundsHalfUpToScale ==
    (calc.ops # <<>> /\ calc.cur.exchange_rate # 0) =>
        LET op == calc.ops[Len(calc.ops)]
            x == calc.arg
            r == calc.cur.exchange_rate
            dp == calc.cur.decimal_places
        IN  /\ op = "from_base" =>
                /\ calc.out.s = dp
                /\ IF x.s + RateScale >= dp
                   THEN IsHalfUpOf(calc.out.c, x.c * r,
                                   Pow10(x.s + RateScale - dp))
                   ELSE calc.out.c = x.c * r * Pow10(dp - x.s - RateScale)
            /\ op = "to_base" =>
                /\ calc.out.s = BaseScale
                /\ IsHalfUpOf(calc.out.c,
                              x.c * Pow10(RateScale + BaseScale - x.s), r)

\* a negative product that lies exactly half way between two results
C2_Witness ==
    /\ calc.ops = <<"from_base">>
    /\ calc.cur.exchange_rate # 0
    /\ calc.x0.c < 0
    /\ LET d == Pow10(calc.x0.s + RateScale - calc.cur.decimal_places)
       IN  2 * Abs(calc.out.c * d - calc.x0.c * calc.cur.exchange_rate) = d

\* C3: a currency whose exchange_rate is 0 converts every amount to 0, in
\* both directions.
C3_ZeroRateYieldsZero ==
    (calc.ops # <<>> /\ calc.cur.exchange_rate = 0) => calc.out.c = 0

\* a non-zero amount converted to the base through a zero rate
C3_Witness ==
    /\ calc.ops = <<"to_base">>
    /\ calc.cur.exchange_rate = 0
    /\ calc.x0.c # 0
    /\ calc.out.c = 0

\* ------------------------------------------------------------------------
\* C21: get_settings is a get_or_create: the hub has at most one settings
\* row, the first call creates it with the field defaults (base EUR, source
\* manual, daily, auto-update off), and a later call returns the row it
\* finds with every field as it was
\* ------------------------------------------------------------------------

DocumentedDefaults ==
    [created |-> TRUE, base_currency |-> "EUR", auto_update_rates |-> FALSE,
     update_frequency |-> "daily", rate_source |-> "manual", api_key |-> ""]

\* C21: a request that calls get_settings (update_rates) leaves the row it
\* finds unchanged, and creates the row with the documented defaults when
\* there is none; after the call the row exists
C21_GetSettingsCreatesOnce ==
    [][\A r \in DOMAIN run :
          UpdateRatesBegin(r) =>
              /\ settings'.created
              /\ settings' = IF settings.created THEN settings
                             ELSE DocumentedDefaults]_vars

\* a second update_rates request has found the row a settings_save left
\* (source ecb), untouched by the first
C21_Witness ==
    /\ settings.created
    /\ settings.rate_source = "ecb"
    /\ settings.base_currency = "usd"
    /\ run[1].pc = "fetch"
    /\ history # << >>

\* ------------------------------------------------------------------------
\* C23: api_convert answers 400 to an amount that is no number and to a
\* request without its from or its to code, and a request it answers with
\* 400 changes no currency, history, payment or settings row
\* ------------------------------------------------------------------------

\* C23: the malformed amount and the missing code are answered with 400,
\* and the 400 leaves every table as it was (the settings row is not even
\* created)
C23_RejectedRequestChangesNothing ==
    [][/\ \A from_arg \in CodeParams, to_arg \in CodeParams :
             \* every answer carries the codes of its request
             (Upper(from_arg) = conv'.from /\ Upper(to_arg) = conv'.to)
                 => \A amount_arg \in ConvertAmounts :
                        (\/ amount_arg = Malformed
                         \/ from_arg = ""
                         \/ to_arg = "")
                            => (api_convert(from_arg, to_arg, amount_arg)
                                    => conv'.status = 400)
       /\ conv'.status = 400
              => /\ currencies' = currencies
                 /\ history' = history
                 /\ payments' = payments
                 /\ settings' = settings]_vars

\* a request with a malformed amount was rejected on a hub that has
\* currencies and whose settings row no request has created yet
C23_Witness ==
    /\ conv.status = 400
    /\ conv.error = "amount"
    /\ ~settings.created
    /\ currencies # << >>

\* ------------------------------------------------------------------------
\* C24: a conversion between two distinct non-base active currencies F and
\* T with non-zero rates goes through the base: the amount is divided by
\* F's rate and rounded half-up to 2 decimals, and that base amount is
\* multiplied by T's rate and rounded half-up to T's decimal_places; the
\* rate of the answer is T's rate over F's rate
\* ------------------------------------------------------------------------

\* the active, non-deleted row with this code
RowOf(code) ==
    currencies[CHOOSE p \in DOMAIN currencies :
                   /\ currencies[p].code = code
                   /\ currencies[p].is_active
                   /\ ~currencies[p].is_deleted]

\* the answer is a conversion between two distinct currencies that both
\* differ from the base and have non-zero rates
CrossConversion ==
    /\ conv.status = 200
    /\ conv.from # conv.to
    /\ conv.from # Upper(settings.base_currency)
    /\ conv.to # Upper(settings.base_currency)
    /\ RowOf(conv.from).exchange_rate # 0
    /\ RowOf(conv.to).exchange_rate # 0

\* C24: result = round_half_up(round_half_up(amount / F.rate, 2) * T.rate,
\* T.decimal_places), and the reported rate is T.rate / F.rate
C24_CrossConversionThroughBase ==
    CrossConversion =>
        LET F == RowOf(conv.from)
            T == RowOf(conv.to)
            \* amount / F.rate in hundredths is n / F.rate
            n == conv.amount.c
                   * Pow10(RateScale + BaseScale - conv.amount.s)
            most == Abs(n) \div F.exchange_rate + 1
        IN  /\ conv.result.s = T.decimal_places
            /\ \E b \in (-most)..most :
                  /\ IsHalfUpOf(b, n, F.exchange_rate)
                  /\ IsHalfUpOf(conv.result.c, b * T.exchange_rate,
                                Pow10(BaseScale + RateScale
                                      - T.decimal_places))
            /\ conv.rate = [num |-> T.exchange_rate, den |-> F.exchange_rate]

\* 0.305 at rate 0.4 is 0.7625 in the base, kept as 0.76, which is 1.90 at
\* rate 2.5; the direct product 0.305 * 6.25 = 1.90625 would give 1.91
C24_Witness ==
    /\ CrossConversion
    /\ conv.amount = Dec(305, 3)
    /\ RowOf(conv.from).exchange_rate = 400000
    /\ RowOf(conv.to).exchange_rate = 2500000
    /\ RowOf(conv.to).decimal_places = 2
    /\ conv.result = Dec(190, 2)

\* ------------------------------------------------------------------------
\* C25: the conversions are odd functions of the amount
\* ------------------------------------------------------------------------

Negated(x) == Dec(-x.c, x.s)

\* C25: convert_from_base(-x) = -convert_from_base(x) and
\* convert_to_base(-x) = -convert_to_base(x) for every currency and every
\* amount x, negative ones included: the call on x has returned calc.out,
\* and the call on -x returns its negation
C25_ConversionsAreOdd ==
    calc.ops # <<>> =>
        LET op == calc.ops[Len(calc.ops)]
            mirrored == IF op = "from_base"
                        THEN convert_from_base(calc.cur, Negated(calc.arg))
                        ELSE convert_to_base(calc.cur, Negated(calc.arg))
        IN  /\ mirrored.c = -calc.out.c
            /\ mirrored.s = calc.out.s

\* a negative amount on a tie: -0.20 at rate 2.5 is -0.5, which rounds away
\* from zero to -1 as 0.20 rounds to 1
C25_Witness ==
    /\ calc.ops = <<"from_base">>
    /\ calc.cur = [exchange_rate |-> 2500000, decimal_places |-> 0]
    /\ calc.arg = Dec(-20, 2)
    /\ calc.out = Dec(-1, 0)

\* ------------------------------------------------------------------------
\* C29: what update_rates leaves alone
\* ------------------------------------------------------------------------

\* the fields of a settings row, whether the row exists yet or not
SettingsFields(s) == [s EXCEPT !.created = FALSE]

\* C29: a step of an update_rates request writes only exchange_rate and
\* last_updated, and only of rows that are active and not deleted: no row
\* is added or removed, code, decimal_places, is_active, sort_order and
\* is_deleted of every row stay, inactive and soft-deleted rows stay whole,
\* and so do the payments and every field of the settings (get_settings
\* may create the row, with the fields it would have read)
C29_UpdateRatesFrame ==
    [][/\ DOMAIN currencies' = DOMAIN currencies
       /\ \A p \in DOMAIN currencies :
             /\ currencies'[p].code = currencies[p].code
             /\ currencies'[p].decimal_places = currencies[p].decimal_places
             /\ currencies'[p].is_active = currencies[p].is_active
             /\ currencies'[p].sort_order = currencies[p].sort_order
             /\ currencies'[p].is_deleted = currencies[p].is_deleted
             /\ (~currencies[p].is_active \/ currencies[p].is_deleted)
                    => currencies'[p] = currencies[p]
       /\ payments' = payments
       /\ SettingsFields(settings') = SettingsFields(settings)]_vars

\* a run has finished after it updated a currency, and an inactive currency
\* other than the base has the rate and the last_updated it started with
C29_Witness ==
    /\ run[1].pc = "done"
    /\ run[1].status = 200
    /\ run[1].saved # << >>
    /\ \E p \in DOMAIN currencies :
          /\ ~currencies[p].is_active
          /\ ~currencies[p].is_deleted
          /\ currencies[p].code # run[1].base
          /\ currencies[p].last_updated = 0
          /\ currencies[p].exchange_rate = 1085000

\* ------------------------------------------------------------------------
\* C30: a currency_edit that fails
\* ------------------------------------------------------------------------

\* C30 as stated: a currency_edit that does not complete successfully (the
\* form is rejected, or the final save fails, as on a code collision) leaves
\* the rate history unchanged, so that no history entry exists for a rate
\* the currency never stored.
C30_FailedEditLeavesHistory ==
    [][(resp'.op = "currency_edit" /\ ~resp'.ok) => history' = history]_vars

\* ------------------------------------------------------------------------
\* Two update_rates requests of one hub at the same time: each is a frame
\* of its own, and the steps of the two interleave
\* ------------------------------------------------------------------------

\* the central bank feed at two moments: GBP at 0.8, GBP at 1.2
RaceFetches ==
    {[ok |-> TRUE, table |-> [c \in {"GBP"} |-> v]] :
        v \in {Dec(8, 1), Dec(12, 1)}}

InitRace ==
    /\ CalcIdle
    /\ currencies \in {f \in Registries :
                          /\ DOMAIN f # {}
                          /\ \A p \in DOMAIN f : ~f[p].is_deleted}
    /\ nextPk = Len(currencies) + 1
    /\ history = << >>
    /\ nextHid = 1
    /\ settings = [DefaultSettings EXCEPT !.created = TRUE,
                                          !.rate_source = "ecb"]
    /\ now = 1
    /\ resp = Response("none", 0, FALSE, 0)
    /\ run = [r \in {1, 2} |-> IdleRun]
    /\ conv = NoConversion
    /\ payments = << >>
    /\ listing = [filter |-> "", entries |-> << >>]
    /\ answer = NoAnswer

NextRace ==
    \/ \E r \in DOMAIN run : UpdateRatesBegin(r)
    \/ \E r \in DOMAIN run, fetch \in RaceFetches : FetchECB(r, fetch)
    \/ \E r \in DOMAIN run : UpdateRatesStep(r)
    \/ \E r \in DOMAIN run : UpdateRatesAppend(r)
    \/ \E r \in DOMAIN run : UpdateRatesEnd(r)

SpecRace == InitRace /\ [][NextRace]_vars

\* the history entries of a currency, and the rate of the newest of them
EntriesOf(pk) == {i \in DOMAIN history : history[i].currency = pk}

NewestRate(pk) ==
    history[CHOOSE i \in EntriesOf(pk) :
                \A j \in EntriesOf(pk) :
                    history[j].recorded_at <= history[i].recorded_at].rate

\* C28 as stated: under every interleaving of two concurrent update_rates
\* runs on the same hub (each run saving the currency and then appending
\* its history entry, as separate steps), once both runs have finished each
\* updated currency's stored exchange_rate equals the rate of its newest
\* history entry.
C28_StoredRateIsNewestEntry ==
    (\A r \in DOMAIN run : run[r].pc = "done") =>
        \A pk \in DOMAIN currencies :
            (\E r \in DOMAIN run :
                \E i \in DOMAIN run[r].saved : run[r].saved[i].pk = pk)
                => /\ EntriesOf(pk) # {}
                   /\ currencies[pk].exchange_rate = NewestRate(pk)

\* ------------------------------------------------------------------------
\* The listings of the registry: views.currencies, views.api_rates and the
\* list_currencies tool
\* ------------------------------------------------------------------------

Listing(op, active_only, rows) ==
    [NoAnswer EXCEPT !.op = op, !.ok = TRUE, !.active_only = active_only,
                     !.rows = rows]

\* Currency.objects.filter(hub_id=hub, is_deleted=False)
\*     .order_by('sort_order', 'code')
currencies_view ==
    /\ UNCHANGED <<calc, run, conv, currencies, nextPk, history, nextHid,
                   now, resp, payments, listing>>
    /\ settings' = get_settings
    /\ answer' = Listing("currencies", FALSE,
           Ordered({p \in DOMAIN currencies : ~currencies[p].is_deleted}))

\* Currency.objects.filter(hub_id=hub, is_deleted=False, is_active=True)
\*     .order_by('sort_order', 'code')
api_rates ==
    /\ UNCHANGED <<calc, run, conv, currencies, nextPk, history, nextHid,
                   now, resp, payments, listing>>
    /\ settings' = get_settings
    /\ answer' = Listing("api_rates", TRUE,
           Ordered({p \in DOMAIN currencies :
                       ~currencies[p].is_deleted /\ currencies[p].is_active}))

\* the orders ORDER BY sort_order leaves open: rows of equal sort_order come
\* in any order
BySortOrder(S) ==
    {s \in [1..Cardinality(S) -> S] :
        /\ \A i, j \in DOMAIN s : i # j => s[i] # s[j]
        /\ \A i, j \in DOMAIN s :
              i < j => currencies[s[i]].sort_order
                           <= currencies[s[j]].sort_order}

\* ListCurrencies.execute: Currency.objects.all().order_by('sort_order'),
\* filtered by is_active=True unless active_only is false; objects leaves
\* the soft-deleted rows out
ListCurrencies(active_only) ==
    /\ UNCHANGED <<calc, run, conv, dbVars, resp, listing>>
    /\ LET qs == {p \in DOMAIN currencies :
                     /\ ~currencies[p].is_deleted
                     /\ active_only => currencies[p].is_active}
       IN  \E s \in BySortOrder(qs) :
               answer' = Listing("list_currencies", active_only,
                   [i \in DOMAIN s |->
                       [pk |-> s[i], code |-> currencies[s[i]].code]])

\* registries the handlers of the hub produce, in every order of creation
ListRows ==
    [code : Codes, decimal_places : {2}, exchange_rate : {1085000},
     is_active : BOOLEAN, is_deleted : BOOLEAN, last_updated : {0},
     sort_order : SortOrders]

ListRegistries ==
    {f \in UNION {[1..n -> ListRows] : n \in 0..MaxCurrencies} :
        \A p, q \in DOMAIN f : p # q => f[p].code # f[q].code}

InitListing ==
    /\ CalcIdle
    /\ currencies \in ListRegistries
    /\ nextPk = Len(currencies) + 1
    /\ history = << >>
    /\ nextHid = 1
    /\ settings = DefaultSettings
    /\ now = 1
    /\ resp = Response("none", 0, FALSE, 0)
    /\ run = [r \in {1} |-> IdleRun]
    /\ conv = NoConversion
    /\ payments = << >>
    /\ listing = [filter |-> "", entries |-> << >>]
    /\ answer = NoAnswer

NextListing ==
    \/ currencies_view
    \/ api_rates
    \/ \E active_only \in BOOLEAN : ListCurrencies(active_only)

SpecListing == InitListing /\ [][NextListing]_vars

\* C22 as stated: every currency listing (the registry's default order,
\* api_rates, the list_currencies assistant tool) returns its currencies
\* sorted by sort_order and, among equal sort_order, by code; with
\* activeOnly set it contains exactly the active non-deleted currencies.
C22_ListingsSortedAndFiltered ==
    answer.op \in {"currencies", "api_rates", "list_currencies"} =>
        /\ \A i, j \in DOMAIN answer.rows :
              i < j => Before(currencies[answer.rows[i].pk],
                              currencies[answer.rows[j].pk])
        /\ answer.active_only =>
              {answer.rows[i].pk : i \in DOMAIN answer.rows}
                  = {p \in DOMAIN currencies :
                        currencies[p].is_active /\ ~currencies[p].is_deleted}

\* ------------------------------------------------------------------------
\* ai_tools.UpdateExchangeRate.execute
\* ------------------------------------------------------------------------

\* a tool that records a rate only when it differs from the stored one
ToolLogsOnChange(old_rate, new_rate) == old_rate # new_rate

\* the history record is created on every call, whatever the two rates
ToolLogs(old_rate, new_rate) == TRUE

\* Currency.objects.get(code=...): the rows it can return; objects leaves
\* the soft-deleted rows out, inactive rows are found
ByCode(code) ==
    {p \in DOMAIN currencies :
        currencies[p].code = code /\ ~currencies[p].is_deleted}

UpdateExchangeRate(code_arg, rate_arg) ==
    /\ now + 1 <= MaxClock
    /\ UNCHANGED <<calc, run, conv, settings, nextPk, payments, listing,
                   answer>>
    /\ LET code == Upper(code_arg)
       IN  IF ByCode(code) = {}
           THEN \* Currency.DoesNotExist
                /\ resp' = Response("update_exchange_rate", 404, FALSE, 0)
                /\ UNCHANGED <<currencies, history, nextHid, now>>
           ELSE \E pk \in ByCode(code) :
                   LET old_rate == currencies[pk].exchange_rate
                   IN  /\ currencies' = [currencies EXCEPT
                              ![pk].exchange_rate = rate_arg,
                              ![pk].last_updated = now]
                       /\ IF ToolLogs(old_rate, rate_arg)
                          THEN /\ history' = Append(history,
                                      HistoryEntry(pk, rate_arg, "manual",
                                                   now + 1))
                               /\ nextHid' = nextHid + 1
                          ELSE UNCHANGED <<history, nextHid>>
                       /\ now' = now + 2
                       /\ resp' = Response("update_exchange_rate", 200,
                                           TRUE, pk)

\* the codes the tool is called with: two the hub can have, one it has not
ToolCodes == {"usd", "GBP", "EUR"}

NextRateTool ==
    \/ \E code \in {"USD", "GBP"}, rate \in FormRates :
          AddCurrency(code, rate, 2)
    \/ \E pk \in Pks : currency_toggle(pk)
    \/ \E pk \in Pks : currency_delete(pk)
    \/ \E code \in ToolCodes, rate \in FormRates :
          UpdateExchangeRate(code, rate)

SpecRateTool == Init /\ [][NextRateTool]_vars

ToolConverted(amount, from_curr, to_curr) ==
    LET den == IF from_curr.exchange_rate # 0 THEN from_curr.exchange_rate
               ELSE Pow10(RateScale)
        g == GCD(to_curr.exchange_rate, den)
    IN  DivQuantize(Dec(amount.c * (to_curr.exchange_rate \div g), amount.s),
                    Dec(den \div g, 0), to_curr.decimal_places,
                    "ROUND_HALF_EVEN")

ToolFailed(error, from_code, to_code) ==
    [NoAnswer EXCEPT !.op = "convert_currency", !.error = error,
                     !.from = from_code, !.to = to_code]

ConvertCurrency(from_arg, to_arg, amount_arg) ==
    /\ UNCHANGED <<calc, run, conv, dbVars, resp, listing>>
    /\ LET from_code == Upper(from_arg)
           to_code == Upper(to_arg)
       IN  IF IsMalformed(amount_arg)
           THEN \* Decimal(args['amount']) raises InvalidOperation
                answer' = ToolFailed("amount", from_code, to_code)
           ELSE IF ByCode(from_code) = {} \/ ByCode(to_code) = {}
           THEN \* Currency.DoesNotExist
                answer' = ToolFailed("not_found", from_code, to_code)
           ELSE \E f \in ByCode(from_code), t \in ByCode(to_code) :
                   answer' =
                       [NoAnswer EXCEPT
                           !.op = "convert_currency", !.ok = TRUE,
                           !.from = from_code, !.to = to_code,
                           !.amount = amount_arg,
                           !.value = ToolConverted(amount_arg, currencies[f],
                                                   currencies[t])]

\* amounts the two conversions are asked for: -1.50, 0.305 and no number
ToolAmounts == {Malformed, Dec(-150, 2), Dec(305, 3)}

\* registries of active currencies, a zero rate among them
ToolRows ==
    [code : Codes, decimal_places : {0, 2},
     exchange_rate : {0, 400000, 2500000},
     is_active : {TRUE}, is_deleted : {FALSE}, last_updated : {0},
     sort_order : {0}]

ToolRegistries ==
    {f \in UNION {[1..n -> ToolRows] : n \in 0..MaxCurrencies} :
        \A p, q \in DOMAIN f :
            p < q => CodeRank(f[p].code) < CodeRank(f[q].code)}

InitAssistant ==
    /\ CalcIdle
    /\ currencies \in ToolRegistries
    /\ nextPk = Len(currencies) + 1
    /\ history = << >>
    /\ nextHid = 1
    /\ settings = [DefaultSettings EXCEPT !.created = TRUE]
    /\ now = 1
    /\ resp = Response("none", 0, FALSE, 0)
    /\ run = [r \in {1} |-> IdleRun]
    /\ conv = NoConversion
    /\ payments = << >>
    /\ listing = [filter |-> "", entries |-> << >>]
    /\ answer = NoAnswer

\* the HTTP endpoint and the assistant tool, asked the same questions
NextAssistant ==
    \/ \E from_arg \in ToolCodes, to_arg \in ToolCodes,
          amount_arg \in ToolAmounts :
          api_convert(from_arg, to_arg, amount_arg)
    \/ \E from_arg \in ToolCodes, to_arg \in ToolCodes,
          amount_arg \in ToolAmounts :
          ConvertCurrency(from_arg, to_arg, amount_arg)

SpecAssistant == InitAssistant /\ [][NextAssistant]_vars

\* C27 as stated: the convert_currency assistant tool returns the same
\* converted amount as api_convert for the same request (same routing
\* through the base, same intermediate 2-decimal rounding, same half-up
\* rounding, same zero-rate result of 0).
C27_ToolAgreesWithApiConvert ==
    (/\ answer.op = "convert_currency"
     /\ conv.status = 200
     /\ conv.from = answer.from
     /\ conv.to = answer.to
     /\ answer.ok => conv.amount = answer.amount)
        => /\ answer.ok
           /\ DecEq(answer.value, conv.result)

====
